---- MODULE Spec2Model ----
(***************************************************************************)
(* Model of the two target generators of prometheus-sample-configs:        *)
(*   scripts/scrape_ec2_reachability.py  (HTML tables -> aws-targets*.json)*)
(*   scripts/generate_ookla_targets.py   (JSON API + DNS -> ookla_*.json)  *)
(*                                                                         *)
(* A Python str is a sequence of one-character strings, so that strip,     *)
(* split, lower and the ordering of strings are computed and not assumed.  *)
(***************************************************************************)
EXTENDS Integers, Sequences, FiniteSets, TLC

VARIABLES
    \* fetch(url, retries) of scrape_ec2_reachability.py
    url, retries, attempts, ex, fetch_pc, fetch_ret,
    \* split_city_country(head)
    head, split_pc, split_ret,
    \* main / parse_ipv4 / parse_ipv6 / parse_table of scrape_ec2_reachability.py
    pc, ip_version, area, current_city, current_country, out, results,
    v4, v6, trs, rows_read, OUT_ALL, OUT_V4, OUT_V6,
    \* main of generate_ookla_targets.py
    ookla_pc, icmp_v4, icmp_v6, item, resolved, items_read, error,
    FILE_V4, FILE_V6

fetchVars == <<url, retries, attempts, ex, fetch_pc, fetch_ret>>
splitVars == <<head, split_pc, split_ret>>
ec2Vars   == <<pc, ip_version, area, current_city, current_country, out,
               results, v4, v6, trs, rows_read, OUT_ALL, OUT_V4, OUT_V6>>
ooklaVars == <<ookla_pc, icmp_v4, icmp_v6, item, resolved, items_read, error,
               FILE_V4, FILE_V6>>
vars == <<fetchVars, splitVars, ec2Vars, ooklaVars>>

\* Python's None, and the marker of a file not written yet.
None == "None"
NotWritten == "NotWritten"

-----------------------------------------------------------------------------
(* Bounds of the model.                                                    *)

\* longest heading handed to split_city_country
MaxLen == 4
\* largest value of fetch's retries parameter
MaxRetries == 4
\* table rows read in one run of the EC2 scraper, both pages together
MaxRows == 3
\* entries of the JSON array read in one run of the ookla generator
MaxItems == 2

-----------------------------------------------------------------------------
(* Strings.                                                                *)

\* U+00A0, the no-break space
NBSP == "nbsp"

\* The characters of the texts modelled, each class in code point order.
Digits == <<"0", "1", "2", "3", "4", "5", "6", "7", "8", "9">>
Upper ==
    <<"A", "B", "C", "D", "E", "F", "G", "H", "I", "J", "K", "L", "M", "N",
      "O", "P", "Q", "R", "S", "T", "U", "V", "W", "X", "Y", "Z">>
Lowercase ==
    <<"a", "b", "c", "d", "e", "f", "g", "h", "i", "j", "k", "l", "m", "n",
      "o", "p", "q", "r", "s", "t", "u", "v", "w", "x", "y", "z">>

\* the index of c in the sequence t, 0 when c is not in t
IndexIn(t, c) ==
    IF \E i \in 1..Len(t) : t[i] = c
    THEN CHOOSE i \in 1..Len(t) : t[i] = c
    ELSE 0

\* ord(c)
Ord(c) ==
    IF IndexIn(Digits, c) # 0 THEN 47 + IndexIn(Digits, c)
    ELSE IF IndexIn(Upper, c) # 0 THEN 64 + IndexIn(Upper, c)
    ELSE IF IndexIn(Lowercase, c) # 0 THEN 96 + IndexIn(Lowercase, c)
    ELSE CASE c = "\t" -> 9
           [] c = "\n" -> 10
           [] c = " "  -> 32
           [] c = ","  -> 44
           [] c = "-"  -> 45
           [] c = "."  -> 46
           [] c = "/"  -> 47
           [] c = ":"  -> 58
           [] c = NBSP -> 160

\* str.isspace() of one character: U+00A0 is whitespace for a Python str
IsSpace(c) == c \in {" ", "\t", "\n", NBSP}

\* str.lower() of one character
LowerChar(c) ==
    IF IndexIn(Upper, c) # 0 THEN Lowercase[IndexIn(Upper, c)] ELSE c

\* s.lower()
Lower(s) == [i \in 1..Len(s) |-> LowerChar(s[i])]

RECURSIVE LStrip(_)
\* s.lstrip()
LStrip(s) ==
    IF s # <<>> /\ IsSpace(Head(s)) THEN LStrip(Tail(s)) ELSE s

RECURSIVE RStrip(_)
\* s.rstrip()
RStrip(s) ==
    IF s # <<>> /\ IsSpace(s[Len(s)]) THEN RStrip(SubSeq(s, 1, Len(s) - 1))
    ELSE s

\* s.strip()
Strip(s) == RStrip(LStrip(s))

\* s.replace(old, new) for one-character old and new
Replace(s, old, new) == [i \in 1..Len(s) |-> IF s[i] = old THEN new ELSE s[i]]

RECURSIVE SplitWS(_, _, _)
\* s.split(): the maximal runs of non-whitespace; cur is the run being read
SplitWS(s, cur, acc) ==
    IF s = <<>> THEN (IF cur = <<>> THEN acc ELSE Append(acc, cur))
    ELSE IF IsSpace(Head(s))
         THEN SplitWS(Tail(s), <<>>, IF cur = <<>> THEN acc ELSE Append(acc, cur))
         ELSE SplitWS(Tail(s), Append(cur, Head(s)), acc)

RECURSIVE Join(_, _)
\* sep.join(words)
Join(sep, words) ==
    IF words = <<>> THEN <<>>
    ELSE IF Len(words) = 1 THEN words[1]
    ELSE words[1] \o sep \o Join(sep, Tail(words))

RECURSIVE Find(_, _, _)
\* s.find(c) counted from 1, 0 when c is not in s; i is the index looked at
Find(s, c, i) ==
    IF i > Len(s) THEN 0
    ELSE IF s[i] = c THEN i
    ELSE Find(s, c, i + 1)

RECURSIVE RFind(_, _, _)
\* s.rfind(c) counted from 1, 0 when c is not in s
RFind(s, c, i) ==
    IF i < 1 THEN 0
    ELSE IF s[i] = c THEN i
    ELSE RFind(s, c, i - 1)

\* s.split(c, 1): at most one split, at the first c
Split1(s, c) ==
    LET i == Find(s, c, 1)
    IN  IF i = 0 THEN <<s>>
        ELSE <<SubSeq(s, 1, i - 1), SubSeq(s, i + 1, Len(s))>>

\* s.rsplit(c, 1): at most one split, at the last c
RSplit1(s, c) ==
    LET i == RFind(s, c, Len(s))
    IN  IF i = 0 THEN <<s>>
        ELSE <<SubSeq(s, 1, i - 1), SubSeq(s, i + 1, Len(s))>>

RECURSIVE StrLess(_, _)
\* a < b for two str: code point by code point, a proper prefix is smaller
StrLess(a, b) ==
    IF b = <<>> THEN FALSE
    ELSE IF a = <<>> THEN TRUE
    ELSE IF Head(a) # Head(b) THEN Ord(Head(a)) < Ord(Head(b))
    ELSE StrLess(Tail(a), Tail(b))

\* all strings over the characters cs of length at most n
StringsUpTo(cs, n) == UNION {[1..k -> cs] : k \in 0..n}

-----------------------------------------------------------------------------
(* scrape_ec2_reachability.py: clean_text and split_city_country           *)

clean_text(s) == Join(<<" ">>, SplitWS(Replace(Strip(s), NBSP, " "), <<>>, <<>>))

\* split_city_country with the split made at the last comma (rsplit)
split_city_country_rsplit(h) ==
    LET txt == clean_text(h)
    IN  IF Find(txt, ",", 1) # 0
        THEN LET ab == RSplit1(txt, ",")
             IN  <<Strip(ab[1]), Strip(ab[2])>>
        ELSE <<txt, <<>>>>

split_city_country(h) ==
    LET txt == clean_text(h)
    IN  IF Find(txt, ",", 1) # 0
        THEN LET ab == Split1(txt, ",")
             IN  <<Strip(ab[1]), Strip(ab[2])>>
        ELSE <<txt, <<>>>>

-----------------------------------------------------------------------------
(* The variables of a script that is not running.                          *)

IdleFetch ==
    /\ url = None /\ retries = 0 /\ attempts = <<>> /\ ex = None
    /\ fetch_pc = "idle" /\ fetch_ret = None

IdleSplit == head = <<>> /\ split_pc = "idle" /\ split_ret = None

IdleEC2 ==
    /\ pc = "idle" /\ ip_version = None /\ area = <<>>
    /\ current_city = <<>> /\ current_country = <<>>
    /\ out = <<>> /\ results = <<>> /\ v4 = <<>> /\ v6 = <<>>
    /\ trs = <<>> /\ rows_read = 0
    /\ OUT_ALL = NotWritten /\ OUT_V4 = NotWritten /\ OUT_V6 = NotWritten

IdleOokla ==
    /\ ookla_pc = "idle" /\ icmp_v4 = <<>> /\ icmp_v6 = <<>>
    /\ item = None /\ resolved = None /\ items_read = 0 /\ error = None
    /\ FILE_V4 = NotWritten /\ FILE_V6 = NotWritten

-----------------------------------------------------------------------------
(* split_city_country as a function of its argument.                       *)

Lagos_Nigeria ==
    <<"L", "a", "g", "o", "s", ",", " ", "N", "i", "g", "e", "r", "i", "a">>
Lagos == <<"L", "a", "g", "o", "s">>
Nigeria == <<"N", "i", "g", "e", "r", "i", "a">>
Tokyo == <<"T", "o", "k", "y", "o">>

\* the characters of the headings tried
HeadChars == {"a", ",", " ", NBSP}

\* the headings tried: every short one, and the two of the documentation
Headings == StringsUpTo(HeadChars, MaxLen) \cup {Lagos_Nigeria, Tokyo}

InitSplit ==
    /\ head \in Headings
    /\ split_pc = "call"
    /\ split_ret = None
    /\ IdleFetch /\ IdleEC2 /\ IdleOokla

SplitCall ==
    /\ split_pc = "call"
    /\ split_ret' = split_city_country(head)
    /\ split_pc' = "done"
    /\ UNCHANGED <<head, fetchVars, ec2Vars, ooklaVars>>

NextSplit == SplitCall

SpecSplit == InitSplit /\ [][NextSplit]_vars

\* the positions of the commas of s
Commas(s) == {i \in 1..Len(s) : s[i] = ","}

\* the least element of a non-empty set of numbers
Least(S) == CHOOSE i \in S : \A j \in S : i <= j

\* C6: the heading, whitespace-normalized, is cut at its first comma into
\* (text before, text after), each trimmed; with no comma the result is
\* (the normalized heading, ""). "Lagos, Nigeria" gives ("Lagos", "Nigeria")
\* and "Tokyo" gives ("Tokyo", "").
C6_HeadingSplit ==
    split_pc = "done" =>
        LET txt == clean_text(head)
        IN  /\ Commas(txt) # {} =>
                LET i == Least(Commas(txt))
                IN  split_ret = <<Strip(SubSeq(txt, 1, i - 1)),
                                  Strip(SubSeq(txt, i + 1, Len(txt)))>>
            /\ Commas(txt) = {} => split_ret = <<txt, <<>>>>
            /\ head = Lagos_Nigeria => split_ret = <<Lagos, Nigeria>>
            /\ head = Tokyo => split_ret = <<Tokyo, <<>>>>

\* a heading with two commas and text between them has been split
C6_Witness ==
    /\ split_pc = "done"
    /\ Cardinality(Commas(clean_text(head))) = 2
    /\ split_ret[2] # <<>>
    /\ Commas(split_ret[2]) # {}

-----------------------------------------------------------------------------
(* fetch(url, retries) of scrape_ec2_reachability.py                       *)

IPv4_URL == "http://ec2-reachability.amazonaws.com/"
IPv6_URL == "http://ipv6.ec2-reachability.amazonaws.com/"

\* what requests.get and raise_for_status raise
FetchErrors == {"Timeout", "HTTPError"}
\* what a successful attempt returns as r.text
Documents == {"html_a", "html_b"}

\* range(retries) yields one more iteration than the loop was meant to make
MoreAttempts_offbyone == Len(attempts) <= retries

\* range(retries) has another iteration left
MoreAttempts == Len(attempts) < retries

InitFetch ==
    /\ url \in {IPv4_URL, IPv6_URL}
    /\ retries \in 0..MaxRetries
    /\ attempts = <<>>
    /\ ex = None
    /\ fetch_pc = "loop"
    /\ fetch_ret = None
    /\ IdleSplit /\ IdleEC2 /\ IdleOokla

\* an attempt whose request succeeds: return r.text
AttemptOk ==
    /\ fetch_pc = "loop"
    /\ MoreAttempts
    /\ \E doc \in Documents :
        /\ attempts' = Append(attempts, [ok |-> TRUE, doc |-> doc])
        /\ fetch_ret' = doc
    /\ fetch_pc' = "returned"
    /\ UNCHANGED <<url, retries, ex, splitVars, ec2Vars, ooklaVars>>

\* an attempt that raises: ex = e, sleep, next iteration
AttemptFails ==
    /\ fetch_pc = "loop"
    /\ MoreAttempts
    /\ \E e \in FetchErrors :
        /\ attempts' = Append(attempts, [ok |-> FALSE, doc |-> None])
        /\ ex' = e
    /\ UNCHANGED <<url, retries, fetch_pc, fetch_ret, splitVars, ec2Vars, ooklaVars>>

\* the loop is exhausted: raise RuntimeError
FetchRaise ==
    /\ fetch_pc = "loop"
    /\ ~MoreAttempts
    /\ fetch_pc' = "raised"
    /\ fetch_ret' = [error |-> "RuntimeError", url |-> url, ex |-> ex]
    /\ UNCHANGED <<url, retries, attempts, ex, splitVars, ec2Vars, ooklaVars>>

NextFetch == AttemptOk \/ AttemptFails \/ FetchRaise

\* the interpreter keeps running the loop, and every request ends within its
\* timeout
SpecFetch == InitFetch /\ [][NextFetch]_vars /\ WF_vars(NextFetch)

\* fetch has returned or raised
FetchEnded == fetch_pc \in {"returned", "raised"}

\* C9: fetch makes at most `retries` attempts, returns the document of the
\* first successful attempt and makes no attempt after it, raises only after
\* `retries` failed attempts, and always terminates.
C9_BoundedRetry ==
    /\ [](Len(attempts) <= retries)
    /\ [](fetch_pc = "returned" =>
            /\ attempts[Len(attempts)].ok
            /\ fetch_ret = attempts[Len(attempts)].doc
            /\ \A i \in 1..(Len(attempts) - 1) : ~attempts[i].ok)
    /\ [](fetch_pc = "raised" =>
            /\ Len(attempts) = retries
            /\ \A i \in 1..Len(attempts) : ~attempts[i].ok
            /\ fetch_ret.error = "RuntimeError")
    /\ [][FetchEnded => UNCHANGED fetchVars]_vars
    /\ <>FetchEnded

\* a call that returned the document of its third attempt with one to spare
C9_Witness ==
    /\ fetch_pc = "returned"
    /\ Len(attempts) = 3
    /\ retries = 4

-----------------------------------------------------------------------------
(* scrape_ec2_reachability.py: parse_table, parse_ipv4, parse_ipv6, main   *)

AWS == <<"a", "w", "s">>
EC2_REACHABILITY ==
    <<"e", "c", "2", "-", "r", "e", "a", "c", "h", "a", "b", "i", "l", "i",
      "t", "y">>

\* the header cells that a data row is tested against
HeaderPlaceholders ==
    {<<"i", "p">>, <<"i", "n", "s", "t", "a", "n", "c", "e", " ", "i", "p">>}

\* the city and country of an earlier table are still current
NewTable_leak ==
    [out |-> <<>>, current_city |-> current_city,
     current_country |-> current_country]

\* the state of parse_table before the first row of a table
NewTable == [out |-> <<>>, current_city |-> <<>>, current_country |-> <<>>]

\* parse_row with the header test made on ip as written, not on ip.lower()
parse_row_nolower(a, ver, st, tr) ==
    IF tr.heading
    THEN LET cc == split_city_country(tr.th)
         IN  [st EXCEPT !.current_city = cc[1], !.current_country = cc[2]]
    ELSE IF Len(tr.tds) >= 3
    THEN LET region == clean_text(tr.tds[1])
             ip == clean_text(tr.tds[3])
         IN  IF ip = <<>> \/ ip \in HeaderPlaceholders
             THEN st
             ELSE [st EXCEPT !.out = Append(@,
                    [targets |-> <<ip>>,
                     labels |->
                        [provider |-> AWS,
                         area |-> a,
                         region |-> region,
                         city |-> st.current_city,
                         country |-> st.current_country,
                         ip_version |-> IF ver = "v6" THEN <<"6">> ELSE <<"4">>,
                         source |-> EC2_REACHABILITY]])]
    ELSE st

\* one iteration of parse_table's loop over table.select("tr"): a is area,
\* ver is ip_version, st holds out and the current city and country
parse_row(a, ver, st, tr) ==
    IF tr.heading
    THEN LET cc == split_city_country(tr.th)
         IN  [st EXCEPT !.current_city = cc[1], !.current_country = cc[2]]
    ELSE IF Len(tr.tds) >= 3
    THEN LET region == clean_text(tr.tds[1])
             ip == clean_text(tr.tds[3])
         IN  IF ip = <<>> \/ Lower(ip) \in HeaderPlaceholders
             THEN st
             ELSE [st EXCEPT !.out = Append(@,
                    [targets |-> <<ip>>,
                     labels |->
                        [provider |-> AWS,
                         area |-> a,
                         region |-> region,
                         city |-> st.current_city,
                         country |-> st.current_country,
                         ip_version |-> IF ver = "v6" THEN <<"6">> ELSE <<"4">>,
                         source |-> EC2_REACHABILITY]])]
    ELSE st

\* sort_key(g)
sort_key(g) ==
    <<g.labels.area, g.labels.region, g.labels.city, g.targets[1],
      g.labels.ip_version>>

RECURSIVE TupleLess(_, _)
\* a < b for two tuples of str
TupleLess(a, b) ==
    IF b = <<>> THEN FALSE
    ELSE IF a = <<>> THEN TRUE
    ELSE IF Head(a) # Head(b) THEN StrLess(Head(a), Head(b))
    ELSE TupleLess(Tail(a), Tail(b))

RECURSIVE InsertIndex(_, _, _)
\* sorted is stable: index i goes behind every index whose key is not greater
InsertIndex(order, i, keys) ==
    IF order = <<>> THEN <<i>>
    ELSE IF TupleLess(keys[i], keys[Head(order)])
         THEN <<i>> \o order
         ELSE <<Head(order)>> \o InsertIndex(Tail(order), i, keys)

RECURSIVE SortIndices(_, _)
\* the indices 1..n in the order sorted() puts the elements in
SortIndices(n, keys) ==
    IF n = 0 THEN <<>>
    ELSE InsertIndex(SortIndices(n - 1, keys), n, keys)

\* sorted(lst, key=...), keys[i] being the key of lst[i], a tuple of str
SortedBy(lst, keys) ==
    LET order == SortIndices(Len(lst), keys)
    IN  [i \in 1..Len(lst) |-> lst[order[i]]]

\* sorted(lst, key=sort_key)
sorted_by_sort_key(lst) == SortedBy(lst, [i \in 1..Len(lst) |-> sort_key(lst[i])])

\* tuple(sorted(labels.items())): the items of a dict, whose keys are distinct
LabelItems(L) == {<<k, L[k]>> : k \in DOMAIN L}

\* the key of dedup
dedup_key(g) == <<g.targets, LabelItems(g.labels)>>

RECURSIVE dedup_from(_, _, _)
\* the loop of dedup: seen and uniq are its two accumulators
dedup_from(lst, seen, uniq) ==
    IF lst = <<>> THEN uniq
    ELSE LET key == dedup_key(Head(lst))
         IN  IF key \notin seen
             THEN dedup_from(Tail(lst), seen \cup {key}, Append(uniq, Head(lst)))
             ELSE dedup_from(Tail(lst), seen, uniq)

dedup(lst) == dedup_from(lst, {}, <<>>)

\* the texts of the pages tried
T_EU == <<" ", "E", "U">>
H_LN == <<"L", ",", " ", "N">>
H_T == <<"T", NBSP>>
R1 == <<"r">>
PFX == <<"p">>
A_V4 == <<"1", ".", "1", ".", "1", ".", "1">>
A_V6 == <<":", ":", "1">>

\* the third cells tried: blank, the header texts as the pages write them,
\* and addresses of both families
IpCells ==
    {<<" ">>, <<"I", "P">>,
     <<"I", "n", "s", "t", "a", "n", "c", "e", NBSP, "I", "P">>,
     A_V4, A_V6}

\* the panels tried: with and without a .panel-title, with and without a table
Panels ==
    [has_title : BOOLEAN, title : {T_EU}, has_table : BOOLEAN]

\* the rows tried: region headings (one of them with cells beside the
\* heading), rows of three and four cells, and rows too short to be data
Rows ==
    [heading : {TRUE}, th : {H_LN, H_T}, tds : {<<>>}]
    \cup [heading : {TRUE}, th : {H_T}, tds : {<<R1, PFX, A_V4>>}]
    \cup [heading : {FALSE}, th : {<<>>},
          tds : {<<R1, PFX, c>> : c \in IpCells}]
    \cup [heading : {FALSE}, th : {<<>>},
          tds : {<<R1, PFX, A_V4, PFX>>, <<R1, PFX>>}]

Init ==
    /\ pc = "panels"
    /\ ip_version = "v4"
    /\ area = <<>>
    /\ current_city = <<>>
    /\ current_country = <<>>
    /\ out = <<>>
    /\ results = <<>>
    /\ v4 = <<>>
    /\ v6 = <<>>
    /\ trs = <<>>
    /\ rows_read = 0
    /\ OUT_ALL = NotWritten /\ OUT_V4 = NotWritten /\ OUT_V6 = NotWritten
    /\ IdleFetch /\ IdleSplit /\ IdleOokla

\* parse_table up to its loop, for the next panel of the page
BeginPanel ==
    /\ pc = "panels"
    /\ \E panel \in Panels :
        /\ area' = IF panel.has_title THEN clean_text(panel.title) ELSE <<>>
        /\ IF ~panel.has_table
           THEN UNCHANGED <<pc, out, current_city, current_country, trs>>
           ELSE /\ pc' = "rows"
                /\ out' = NewTable.out
                /\ current_city' = NewTable.current_city
                /\ current_country' = NewTable.current_country
                /\ trs' = <<>>
    /\ UNCHANGED <<ip_version, results, v4, v6, rows_read,
                   OUT_ALL, OUT_V4, OUT_V6, fetchVars, splitVars, ooklaVars>>

\* one row of the table
ReadRow ==
    /\ pc = "rows"
    /\ rows_read < MaxRows
    /\ \E tr \in Rows :
        LET st == parse_row(area, ip_version,
                            [out |-> out, current_city |-> current_city,
                             current_country |-> current_country], tr)
        IN  /\ out' = st.out
            /\ current_city' = st.current_city
            /\ current_country' = st.current_country
            /\ trs' = Append(trs, tr)
    /\ rows_read' = rows_read + 1
    /\ UNCHANGED <<pc, ip_version, area, results, v4, v6,
                   OUT_ALL, OUT_V4, OUT_V6, fetchVars, splitVars, ooklaVars>>

\* parse_table returns out and parse_ipv4 / parse_ipv6 extends results by it
EndTable ==
    /\ pc = "rows"
    /\ results' = results \o out
    /\ pc' = "panels"
    /\ UNCHANGED <<ip_version, area, current_city, current_country, out, v4, v6,
                   trs, rows_read, OUT_ALL, OUT_V4, OUT_V6,
                   fetchVars, splitVars, ooklaVars>>

\* parse_ipv4 returns; parse_ipv6 starts on the second page
EndPageV4 ==
    /\ pc = "panels"
    /\ ip_version = "v4"
    /\ v4' = results
    /\ results' = <<>>
    /\ ip_version' = "v6"
    /\ UNCHANGED <<pc, area, current_city, current_country, out, v6,
                   trs, rows_read, OUT_ALL, OUT_V4, OUT_V6,
                   fetchVars, splitVars, ooklaVars>>

\* parse_ipv6 returns; main removes duplicates, sorts and writes the files
Finish ==
    /\ pc = "panels"
    /\ ip_version = "v6"
    /\ LET d4 == dedup(v4)
           d6 == dedup(results)
       IN  /\ v4' = d4
           /\ v6' = d6
           /\ OUT_ALL' = sorted_by_sort_key(d4 \o d6)
           /\ OUT_V4' = sorted_by_sort_key(d4)
           /\ OUT_V6' = sorted_by_sort_key(d6)
    /\ pc' = "done"
    /\ UNCHANGED <<ip_version, area, current_city, current_country, out,
                   results, trs, rows_read, fetchVars, splitVars, ooklaVars>>

Next == BeginPanel \/ ReadRow \/ EndTable \/ EndPageV4 \/ Finish

Spec == Init /\ [][Next]_vars

\* the greatest element of a non-empty set of numbers
Greatest(S) == CHOOSE i \in S : \A j \in S : j <= i

\* s and t are equal up to the case of their letters, t being in lower case
EqualsIgnoringCase(s, t) ==
    /\ Len(s) = Len(t)
    /\ \A i \in 1..Len(s) :
        \/ s[i] = t[i]
        \/ IndexIn(Lowercase, t[i]) # 0 /\ s[i] = Upper[IndexIn(Lowercase, t[i])]

\* the third cell of a row, whitespace-normalized
ThirdCell(tr) == clean_text(tr.tds[3])

\* a row of at least three cells with no region heading
IsDataRow(tr) == ~tr.heading /\ Len(tr.tds) >= 3

\* a data row whose third cell is empty or a header text
IsHeaderRow(tr) ==
    /\ IsDataRow(tr)
    /\ \/ ThirdCell(tr) = <<>>
       \/ EqualsIgnoringCase(ThirdCell(tr), <<"i", "p">>)
       \/ EqualsIgnoringCase(ThirdCell(tr),
            <<"i", "n", "s", "t", "a", "n", "c", "e", " ", "i", "p">>)

\* the rows of the current table that give a group, in order
EmittingRows == {i \in 1..Len(trs) : IsDataRow(trs[i]) /\ ~IsHeaderRow(trs[i])}

\* the heading rows of the current table before row i
HeadingsBefore(i) == {j \in 1..(i - 1) : trs[j].heading}

\* C5: each group of a table carries as city and country the split of the
\* most recent heading row before its row in that table, or empty strings
\* when there is none; heading rows give no group, and nothing of an earlier
\* panel's context reaches the rows of this one.
C5_HeadingCarryForward ==
    pc = "rows" =>
        LET E == EmittingRows
        IN  /\ Len(out) = Cardinality(E)
            /\ \A i \in E :
                LET g == out[Cardinality({j \in E : j <= i})]
                    H == HeadingsBefore(i)
                    cc == IF H = {} THEN <<<<>>, <<>>>>
                          ELSE split_city_country(trs[Greatest(H)].th)
                IN  /\ g.labels.city = cc[1]
                    /\ g.labels.country = cc[2]

\* the first row of a panel's table gave a group with no city, after an
\* earlier panel whose group has one
C5_Witness ==
    /\ pc = "rows"
    /\ Len(results) = 1
    /\ results[1].labels.city # <<>>
    /\ Len(trs) = 1
    /\ Len(out) = 1
    /\ out[1].labels.city = <<>>

\* C7: a data row whose third cell, whitespace-normalized, is empty or is
\* "ip" or "instance ip" in any letter case gives no group and leaves the
\* current city and country as they are; every other row of at least three
\* cells and no region heading gives exactly one group, whose targets is
\* the one-element list of that cell's text.
C7_RowStep ==
    rows_read' = rows_read + 1 =>
        LET tr == trs'[Len(trs')]
        IN  /\ IsHeaderRow(tr) =>
                /\ out' = out
                /\ current_city' = current_city
                /\ current_country' = current_country
            /\ IsDataRow(tr) /\ ~IsHeaderRow(tr) =>
                /\ Len(out') = Len(out) + 1
                /\ SubSeq(out', 1, Len(out)) = out
                /\ out'[Len(out')].targets = <<ThirdCell(tr)>>

C7_HeaderRowRejection == [][C7_RowStep]_vars

\* a row whose third cell is "IP" was read after a heading and a data row,
\* and the group and the city are still there
C7_Witness ==
    /\ pc = "rows"
    /\ Len(trs) = 3
    /\ IsDataRow(trs[3])
    /\ trs[3].tds[3] = <<"I", "P">>
    /\ Len(out) = 1
    /\ current_city # <<>>

\* the characters of s are all in the set cs
AllIn(s, cs) == \A i \in 1..Len(s) : s[i] \in cs

RECURSIVE SplitOn(_, _)
\* s.split(c)
SplitOn(s, c) ==
    LET i == Find(s, c, 1)
    IN  IF i = 0 THEN <<s>>
        ELSE <<SubSeq(s, 1, i - 1)>> \o SplitOn(SubSeq(s, i + 1, Len(s)), c)

RECURSIVE Decimal(_)
\* the number a string of digits denotes
Decimal(s) ==
    IF s = <<>> THEN 0
    ELSE 10 * Decimal(SubSeq(s, 1, Len(s) - 1)) + (IndexIn(Digits, s[Len(s)]) - 1)

DigitSet == {Digits[i] : i \in 1..Len(Digits)}
HexSet == DigitSet \cup {"a", "b", "c", "d", "e", "f", "A", "B", "C", "D", "E", "F"}

\* s is an IPv4 literal: four decimal octets
IsIPv4(s) ==
    LET parts == SplitOn(s, ".")
    IN  /\ Len(parts) = 4
        /\ \A i \in 1..4 :
            /\ parts[i] # <<>>
            /\ Len(parts[i]) <= 3
            /\ AllIn(parts[i], DigitSet)
            /\ Decimal(parts[i]) <= 255

\* s is an IPv6 literal: groups of one to four hexadecimal digits, eight of
\* them, or fewer with "::" once in the place of the groups left out
IsIPv6(s) ==
    LET parts == SplitOn(s, ":")
        n == Len(parts)
        empty == {i \in 1..n : parts[i] = <<>>}
    IN  /\ \A i \in 1..n : Len(parts[i]) <= 4 /\ AllIn(parts[i], HexSet)
        /\ \/ empty = {} /\ n = 8
           \/ \E i \in 2..(n - 1) : empty = {i} /\ n <= 8
           \/ empty = {1, 2} /\ n >= 3 /\ n <= 9
           \/ empty = {n - 1, n} /\ n >= 3 /\ n <= 9
           \/ empty = {1, 2, 3} /\ n = 3

\* C3: every address of every group written to the IPv4 file is an IPv4
\* literal, and every address written to the IPv6 file is an IPv6 literal.
C3_FamilyPurity ==
    pc = "done" =>
        /\ \A i \in 1..Len(OUT_V4) : \A j \in 1..Len(OUT_V4[i].targets) :
                IsIPv4(OUT_V4[i].targets[j])
        /\ \A i \in 1..Len(OUT_V6) : \A j \in 1..Len(OUT_V6[i].targets) :
                IsIPv6(OUT_V6[i].targets[j])

-----------------------------------------------------------------------------
(* generate_ookla_targets.py                                               *)

\* The values json.loads gives for the fields of an entry: a str, an int or
\* None; Absent stands for a key the entry does not have.
PyStr(s) == [t |-> "str", s |-> s, n |-> 0]
PyInt(n) == [t |-> "int", s |-> <<>>, n |-> n]
PyNone == [t |-> "none", s |-> <<>>, n |-> 0]
Absent == [t |-> "absent", s |-> <<>>, n |-> 0]

\* bool(v) is False
Falsy(v) ==
    \/ v.t = "none"
    \/ v.t = "str" /\ v.s = <<>>
    \/ v.t = "int" /\ v.n = 0

RECURSIVE NatToStr(_)
\* str(n) for n >= 0
NatToStr(n) ==
    IF n < 10 THEN <<Digits[n + 1]>>
    ELSE NatToStr(n \div 10) \o <<Digits[(n % 10) + 1]>>

\* str(v)
Str(v) ==
    CASE v.t = "str" -> v.s
      [] v.t = "int" -> IF v.n < 0 THEN <<"-">> \o NatToStr(-v.n) ELSE NatToStr(v.n)
      [] v.t = "none" -> <<"N", "o", "n", "e">>

\* item.get(k), and item.get(k, d)
Get(it, k) == IF it.f[k].t = "absent" THEN PyNone ELSE it.f[k]
GetOr(it, k, d) == IF it.f[k].t = "absent" THEN d ELSE it.f[k]

\* strip_port(hostport)
strip_port(hostport) == RSplit1(hostport, ":")[1]

RECURSIVE InsertStr(_, _)
\* s put into the sorted list lst
InsertStr(lst, s) ==
    IF lst = <<>> THEN <<s>>
    ELSE IF StrLess(s, Head(lst)) THEN <<s>> \o lst
    ELSE <<Head(lst)>> \o InsertStr(Tail(lst), s)

RECURSIVE SortedStrs(_)
\* sorted(S) for a set S of str
SortedStrs(S) ==
    IF S = {} THEN <<>>
    ELSE LET x == CHOOSE y \in S : TRUE
         IN  InsertStr(SortedStrs(S \ {x}), x)

\* what getaddrinfo does for one family: it raises gaierror, or returns infos
gaierror == [raised |-> TRUE, infos |-> <<>>]
Infos(addrs) == [raised |-> FALSE, infos |-> addrs]

\* the addresses of one family that resolve_addrs collects in its set
Collected(answer) ==
    IF answer.raised THEN {} ELSE {answer.infos[i] : i \in 1..Len(answer.infos)}

\* resolve_addrs that returns the addresses as getaddrinfo listed them
resolve_addrs_aslisted(inet, inet6) ==
    <<IF inet.raised THEN <<>> ELSE inet.infos,
      IF inet6.raised THEN <<>> ELSE inet6.infos>>

\* resolve_addrs(host), inet and inet6 being what getaddrinfo does for
\* AF_INET and for AF_INET6
resolve_addrs(inet, inet6) ==
    <<SortedStrs(Collected(inet)), SortedStrs(Collected(inet6))>>

make_group(targets, labels) == [targets |-> targets, labels |-> labels]

\* the label schema of the generator
OoklaLabels == {"ookla_id", "city", "sponsor", "cc", "fqdn", "url", "ip_family"}

JAPAN == <<"J", "a", "p", "a", "n">>

\* What one iteration of main's loop does with item: the groups it appends
\* to icmp_v4 and icmp_v6, or the exception it raises.
Iteration(err, g4, g6) == [error |-> err, v4 |-> g4, v6 |-> g6]

loop_body(it, inet, inet6) ==
    IF ~it.obj
    THEN Iteration("AttributeError", <<>>, <<>>)
    ELSE IF Get(it, "country") # PyStr(JAPAN)
    THEN Iteration(None, <<>>, <<>>)
    ELSE LET host_field == Get(it, "host")
             u == IF Falsy(Get(it, "url")) THEN PyStr(<<>>) ELSE Get(it, "url")
         IN  IF Falsy(host_field)
             THEN Iteration(None, <<>>, <<>>)
             ELSE IF host_field.t # "str"
             THEN Iteration("AttributeError", <<>>, <<>>)
             ELSE LET fqdn == strip_port(host_field.s)
                      lists == resolve_addrs(inet, inet6)
                      base(fam) ==
                        [ookla_id |-> PyStr(Str(GetOr(it, "id", PyStr(<<>>)))),
                         city |-> GetOr(it, "name", PyStr(<<>>)),
                         sponsor |-> GetOr(it, "sponsor", PyStr(<<>>)),
                         cc |-> GetOr(it, "cc", PyStr(<<>>)),
                         fqdn |-> PyStr(fqdn),
                         url |-> u,
                         ip_family |-> PyStr(fam)]
                  IN  Iteration(None,
                        IF lists[1] # <<>>
                        THEN <<make_group(lists[1], base(<<"v", "4">>))>>
                        ELSE <<>>,
                        IF lists[2] # <<>>
                        THEN <<make_group(lists[2], base(<<"v", "6">>))>>
                        ELSE <<>>)

\* a < b for two values of labels: "T", "F", or "E" when Python raises
\* TypeError
ValueLess(a, b) ==
    IF a.t = "str" /\ b.t = "str" THEN (IF StrLess(a.s, b.s) THEN "T" ELSE "F")
    ELSE IF a.t = "int" /\ b.t = "int" THEN (IF a.n < b.n THEN "T" ELSE "F")
    ELSE "E"

\* key(g) of sort_groups: the six label values, then tuple(targets)
group_key(g) ==
    [vals |-> <<g.labels.city, g.labels.sponsor, g.labels.ookla_id,
                g.labels.ip_family, g.labels.fqdn, g.labels.url>>,
     targets |-> g.targets]

\* ka < kb for two keys: decided at the first place where they differ
KeyLess(ka, kb) ==
    LET diff == {i \in 1..Len(ka.vals) : ka.vals[i] # kb.vals[i]}
    IN  IF diff # {} THEN ValueLess(ka.vals[Least(diff)], kb.vals[Least(diff)])
        ELSE IF TupleLess(ka.targets, kb.targets) THEN "T" ELSE "F"

\* what sorted() gives: the order of the indices, or TypeError
SortRaises == [error |-> TRUE, order |-> <<>>]
SortGives(order) == [error |-> FALSE, order |-> order]

RECURSIVE RunEnd(_, _, _)
\* list.sort first counts the run the list starts with, strictly descending
\* (desc) or not; k is the index compared with its predecessor. The result
\* is the last index of the run, 0 for TypeError.
RunEnd(k, desc, keys) ==
    IF k > Len(keys) THEN Len(keys)
    ELSE LET c == KeyLess(keys[k], keys[k - 1])
         IN  IF c = "E" THEN 0
             ELSE IF (c = "T") = desc THEN RunEnd(k + 1, desc, keys)
             ELSE k - 1

RECURSIVE BinarySearch(_, _, _, _, _)
\* then each later element is put into the sorted part by bisection: the
\* number of elements that stay before pivot, -1 for TypeError
BinarySearch(order, pivot, l, r, keys) ==
    IF l >= r THEN l
    ELSE LET p == l + ((r - l) \div 2)
             c == KeyLess(keys[pivot], keys[order[p + 1]])
         IN  IF c = "E" THEN -1
             ELSE IF c = "T" THEN BinarySearch(order, pivot, l, p, keys)
             ELSE BinarySearch(order, pivot, p + 1, r, keys)

RECURSIVE BinarySort(_, _, _)
BinarySort(order, start, keys) ==
    IF start > Len(keys) THEN SortGives(order)
    ELSE LET l == BinarySearch(order, start, 0, Len(order), keys)
         IN  IF l < 0 THEN SortRaises
             ELSE BinarySort(SubSeq(order, 1, l) \o <<start>>
                                \o SubSeq(order, l + 1, Len(order)),
                             start + 1, keys)

\* sorted() on a list shorter than 64, by its keys
ListSort(keys) ==
    LET n == Len(keys)
    IN  IF n < 2 THEN SortGives([i \in 1..n |-> i])
        ELSE LET first == KeyLess(keys[2], keys[1])
                 desc == first = "T"
                 e == RunEnd(3, desc, keys)
             IN  IF first = "E" \/ e = 0 THEN SortRaises
                 ELSE BinarySort(IF desc THEN [i \in 1..e |-> e + 1 - i]
                                 ELSE [i \in 1..e |-> i],
                                 e + 1, keys)

\* sort_groups(groups): the sorted list, or TypeError
sort_groups(groups) ==
    LET r == ListSort([i \in 1..Len(groups) |-> group_key(groups[i])])
    IN  [error |-> r.error,
         groups |-> [i \in 1..Len(r.order) |-> groups[r.order[i]]]]

\* the file that open(path, "w") has emptied and nothing was written to
Truncated == "Truncated"

\* the texts of the entries tried
HOST_PORT == <<"h", ":", "8", "0">>
HOST == <<"h">>
A_V4b == <<"1", ".", "1", ".", "1", ".", "2">>

\* the entry all others are variations of
BaseItem ==
    [obj |-> TRUE,
     f |-> [country |-> PyStr(JAPAN), host |-> PyStr(HOST_PORT),
            id |-> PyInt(7), name |-> PyStr(<<"O">>),
            sponsor |-> PyStr(<<"X">>), cc |-> PyStr(<<"J", "P">>),
            url |-> PyStr(<<"u">>)]]

\* an object with no key at all
EmptyItem ==
    [obj |-> TRUE,
     f |-> [country |-> Absent, host |-> Absent, id |-> Absent,
            name |-> Absent, sponsor |-> Absent, cc |-> Absent,
            url |-> Absent]]

\* an entry of the array that is not an object: a number, a string, null
NonObject == [obj |-> FALSE, f |-> EmptyItem.f]

\* the entries tried
Items ==
    {BaseItem,
     [BaseItem EXCEPT !.f.cc = PyStr(<<"K", "R">>)],
     [BaseItem EXCEPT !.f.name = PyNone],
     [BaseItem EXCEPT !.f.sponsor = PyInt(3)],
     [BaseItem EXCEPT !.f.host = PyStr(HOST)],
     [EmptyItem EXCEPT !.f.country = PyStr(JAPAN), !.f.host = PyStr(HOST_PORT)],
     [BaseItem EXCEPT !.f.country = PyStr(<<"U", "S">>)],
     EmptyItem,
     [BaseItem EXCEPT !.f.host = Absent],
     [BaseItem EXCEPT !.f.host = PyStr(<<>>)],
     [BaseItem EXCEPT !.f.host = PyNone],
     [BaseItem EXCEPT !.f.host = PyInt(5)],
     NonObject}

\* what getaddrinfo is tried with, for AF_INET and for AF_INET6
InetAnswers == {gaierror, Infos(<<A_V4>>), Infos(<<A_V4b, A_V4, A_V4b>>)}
Inet6Answers == {gaierror, Infos(<<A_V6>>)}

\* resolve_addrs was not called for the entry
NotResolved == [called |-> FALSE, inet |-> gaierror, inet6 |-> gaierror]

InitOokla ==
    /\ ookla_pc = "loop"
    /\ icmp_v4 = <<>>
    /\ icmp_v6 = <<>>
    /\ item = EmptyItem
    /\ resolved = NotResolved
    /\ items_read = 0
    /\ error = None
    /\ FILE_V4 = NotWritten
    /\ FILE_V6 = NotWritten
    /\ IdleFetch /\ IdleSplit /\ IdleEC2

\* the entry reaches resolve_addrs
Resolves(it) ==
    /\ it.obj
    /\ Get(it, "country") = PyStr(JAPAN)
    /\ ~Falsy(Get(it, "host"))
    /\ Get(it, "host").t = "str"

\* one iteration of the loop over data
ReadItem ==
    /\ ookla_pc = "loop"
    /\ items_read < MaxItems
    /\ \E it \in Items, inet \in InetAnswers, inet6 \in Inet6Answers :
        LET r == loop_body(it, inet, inet6)
        IN  /\ item' = it
            /\ resolved' = IF Resolves(it)
                           THEN [called |-> TRUE, inet |-> inet, inet6 |-> inet6]
                           ELSE NotResolved
            /\ IF r.error # None
               THEN /\ ookla_pc' = "crashed"
                    /\ error' = r.error
                    /\ UNCHANGED <<icmp_v4, icmp_v6>>
               ELSE /\ icmp_v4' = icmp_v4 \o r.v4
                    /\ icmp_v6' = icmp_v6 \o r.v6
                    /\ UNCHANGED <<ookla_pc, error>>
    /\ items_read' = items_read + 1
    /\ UNCHANGED <<FILE_V4, FILE_V6, fetchVars, splitVars, ec2Vars>>

\* the loop is over: dump both files
Dump ==
    /\ ookla_pc = "loop"
    /\ LET s4 == sort_groups(icmp_v4)
           s6 == sort_groups(icmp_v6)
       IN  IF s4.error
           THEN /\ FILE_V4' = Truncated
                /\ FILE_V6' = FILE_V6
                /\ ookla_pc' = "crashed"
                /\ error' = "TypeError"
           ELSE IF s6.error
           THEN /\ FILE_V4' = s4.groups
                /\ FILE_V6' = Truncated
                /\ ookla_pc' = "crashed"
                /\ error' = "TypeError"
           ELSE /\ FILE_V4' = s4.groups
                /\ FILE_V6' = s6.groups
                /\ ookla_pc' = "done"
                /\ error' = error
    /\ UNCHANGED <<icmp_v4, icmp_v6, item, resolved, items_read,
                   fetchVars, splitVars, ec2Vars>>

NextOokla == ReadItem \/ Dump

SpecOokla == InitOokla /\ [][NextOokla]_vars

\* the addresses getaddrinfo listed for one family
Listed(answer) ==
    IF answer.raised THEN {} ELSE {answer.infos[i] : i \in 1..Len(answer.infos)}

\* lst holds exactly the strings of S, each once, in increasing order
IsSortedListOf(lst, S) ==
    /\ {lst[i] : i \in 1..Len(lst)} = S
    /\ \A i \in 1..(Len(lst) - 1) : StrLess(lst[i], lst[i + 1])

\* new is old with the one group g appended
Appended(old, new, g) == new = Append(old, g)

\* C8: an entry that passes the country filter and has a host gives exactly
\* one group for each family with a resolved address and none for a family
\* without; the targets of the group are the resolved addresses of the
\* family, each once and sorted, and the two groups of one host have the
\* same labels except ip_family. A host that resolves only to IPv6 gives
\* one group, of family v6.
C8_ItemStep ==
    (items_read' = items_read + 1 /\ resolved'.called) =>
        LET S4 == Listed(resolved'.inet)
            S6 == Listed(resolved'.inet6)
            g4 == icmp_v4'[Len(icmp_v4')]
            g6 == icmp_v6'[Len(icmp_v6')]
        IN  /\ ookla_pc' = "loop"
            /\ S4 = {} => icmp_v4' = icmp_v4
            /\ S6 = {} => icmp_v6' = icmp_v6
            /\ S4 # {} =>
                /\ Appended(icmp_v4, icmp_v4', g4)
                /\ IsSortedListOf(g4.targets, S4)
                /\ g4.labels.ip_family = PyStr(<<"v", "4">>)
            /\ S6 # {} =>
                /\ Appended(icmp_v6, icmp_v6', g6)
                /\ IsSortedListOf(g6.targets, S6)
                /\ g6.labels.ip_family = PyStr(<<"v", "6">>)
            /\ (S4 # {} /\ S6 # {}) =>
                \A k \in OoklaLabels \ {"ip_family"} : g4.labels[k] = g6.labels[k]

C8_PerHostEmission == [][C8_ItemStep]_vars

\* a host with IPv6 only, then a host with both families whose IPv4
\* addresses getaddrinfo listed unsorted and twice
C8_Witness ==
    /\ ookla_pc = "loop"
    /\ items_read = 2
    /\ Len(icmp_v4) = 1
    /\ Len(icmp_v6) = 2
    /\ Len(icmp_v4[1].targets) = 2
    /\ resolved.called
    /\ Len(resolved.inet.infos) = 3

\* the two lists main has built
OoklaLists == {icmp_v4, icmp_v6}

\* C1: no two elements of a written array are equal under the key
\* (tuple of targets, sorted sequence of label items).
C1_NoDuplicates ==
    ookla_pc = "done" =>
        \A F \in {FILE_V4, FILE_V6} : \A i, j \in 1..Len(F) :
            i # j => dedup_key(F[i]) # dedup_key(F[j])

\* the groups of lst are pairwise distinct
PairwiseDistinct(lst) == \A i, j \in 1..Len(lst) : i # j => lst[i] # lst[j]

\* C2: the order of the groups in an output depends only on the set of
\* groups: every permutation of a list of pairwise distinct groups is
\* sorted into the same sequence.
C2_OrderIndependent ==
    ookla_pc = "done" =>
        \A lst \in OoklaLists :
            PairwiseDistinct(lst) =>
                \A p \in Permutations(1..Len(lst)) :
                    sort_groups([i \in 1..Len(lst) |-> lst[p[i]]]) = sort_groups(lst)

\* C4: in every group emitted, every key of the label schema is present and
\* its value is a string.
C4_LabelsAreStrings ==
    \A lst \in OoklaLists : \A i \in 1..Len(lst) :
        /\ DOMAIN lst[i].labels = OoklaLabels
        /\ \A k \in OoklaLabels : lst[i].labels[k].t = "str"

\* an entry that is not an object, or an object with no host
Malformed(it) == ~it.obj \/ it.f.host.t = "absent"

\* C10: an entry with no host field, or not shaped as an object, gives no
\* record, the run does not fail, and the records of the other entries stay.
C10_ItemStep ==
    (items_read' = items_read + 1 /\ Malformed(item')) =>
        /\ ookla_pc' # "crashed"
        /\ icmp_v4' = icmp_v4
        /\ icmp_v6' = icmp_v6

C10_MalformedAbsorbed == [][C10_ItemStep]_vars

====
